---- MODULE Spec2Model ----
(***************************************************************************)
(* Model of the conversation-analysis demo (demo.py, streamlit_app.py):    *)
(* the speaker-turn parser of detect_speakers_ai, the keyword analyzer     *)
(* analyze_text_with_speakers and the "Process Audio" handler of main.     *)
(*                                                                         *)
(* A Python str is modelled as a sequence of one-character strings, so     *)
(* that splitting, trimming, lowercasing and substring search are computed *)
(* on the characters as the interpreter does.  The two functions are the   *)
(* same, statement for statement, in demo.py and streamlit_app.py; the     *)
(* line references are to demo.py unless streamlit_app.py is named.  The   *)
(* two scripts differ in main: streamlit_app.py adds the sample files.     *)
(***************************************************************************)
EXTENDS Integers, Sequences, FiniteSets, TLC

(***************************************************************************)
(* Python str primitives used by the source.                               *)
(***************************************************************************)

\* str.lower() on one character (ASCII letters).
LowerMap ==
  [A |-> "a", B |-> "b", C |-> "c", D |-> "d", E |-> "e", F |-> "f", G |-> "g",
   H |-> "h", I |-> "i", J |-> "j", K |-> "k", L |-> "l", M |-> "m", N |-> "n",
   O |-> "o", P |-> "p", Q |-> "q", R |-> "r", S |-> "s", T |-> "t", U |-> "u",
   V |-> "v", W |-> "w", X |-> "x", Y |-> "y", Z |-> "z"]

LowerChar(c) ==
  IF c \in DOMAIN LowerMap THEN LowerMap[c] ELSE c

\* Mutant of Lower: the text is searched as it is, without .lower().
Lower_Identity(s) ==
  s

\* str.lower()
Lower(s) ==
  [i \in 1..Len(s) |-> LowerChar(s[i])]

\* The characters str.strip() and str.split() treat as whitespace (those of
\* them that occur in the modelled texts).
IsSpace(c) ==
  c \in {" ", "\t", "\n", "\r"}

RECURSIVE LStrip(_)
LStrip(s) ==
  IF s = <<>> THEN <<>>
  ELSE IF IsSpace(Head(s)) THEN LStrip(Tail(s)) ELSE s

RECURSIVE RStrip(_)
RStrip(s) ==
  IF s = <<>> THEN <<>>
  ELSE IF IsSpace(s[Len(s)]) THEN RStrip(SubSeq(s, 1, Len(s) - 1)) ELSE s

\* str.strip()
Strip(s) ==
  RStrip(LStrip(s))

\* str.find(c) for a one-character c, from position i on: the first position
\* of c at or after i; 0 when absent.
FindFrom(s, c, i) ==
  LET hits == {j \in i..Len(s) : s[j] = c}
  IN  IF hits = {} THEN 0 ELSE CHOOSE j \in hits : \A h \in hits : j <= h

\* c in s, for a one-character c
HasChar(s, c) ==
  FindFrom(s, c, 1) # 0

\* s.split(c): always Count(c) + 1 parts, empty parts included.
RECURSIVE Split(_, _)
Split(s, c) ==
  LET i == FindFrom(s, c, 1)
  IN  IF i = 0 THEN <<s>>
      ELSE <<SubSeq(s, 1, i - 1)>> \o Split(SubSeq(s, i + 1, Len(s)), c)

\* Position of the last c in s at or before position i; 0 when absent.
RECURSIVE FindBack(_, _, _)
FindBack(s, c, i) ==
  IF i < 1 THEN 0
  ELSE IF s[i] = c THEN i ELSE FindBack(s, c, i - 1)

\* Mutant of SplitOnce: splits at the last c (rsplit) instead of the first.
SplitOnce_Last(s, c) ==
  LET i == FindBack(s, c, Len(s))
  IN  <<SubSeq(s, 1, i - 1), SubSeq(s, i + 1, Len(s))>>

\* s.split(c, 1) of a string that contains c: the parts around the first c.
SplitOnce(s, c) ==
  LET i == FindFrom(s, c, 1)
  IN  <<SubSeq(s, 1, i - 1), SubSeq(s, i + 1, Len(s))>>

\* s[i:].startswith(sub), 1-based i
MatchAt(s, sub, i) ==
  /\ i + Len(sub) - 1 <= Len(s)
  /\ \A k \in 1..Len(sub) : s[i + k - 1] = sub[k]

\* sub in s[i - 1:]: sub starts at some position from i on.
ContainsFrom(s, sub, i) ==
  \E j \in i..(Len(s) - Len(sub) + 1) : MatchAt(s, sub, j)

\* sub in s
Contains(s, sub) ==
  ContainsFrom(s, sub, 1)

\* sep.join(parts)
RECURSIVE Join(_, _)
Join(parts, sep) ==
  IF parts = <<>> THEN <<>>
  ELSE IF Len(parts) = 1 THEN parts[1]
  ELSE parts[1] \o sep \o Join(Tail(parts), sep)

\* The first position from i on whose character is whitespace (space = TRUE)
\* or is not (space = FALSE); Len(s) + 1 when there is none.
ScanTo(s, i, space) ==
  LET hits == {j \in i..Len(s) : IsSpace(s[j]) = space}
  IN  IF hits = {} THEN Len(s) + 1 ELSE CHOOSE j \in hits : \A h \in hits : j <= h

\* s.split(): the maximal runs of non-whitespace characters, in order.  The
\* scan skips whitespace, takes the run up to the next whitespace, and goes on
\* behind it.
RECURSIVE WordsFrom(_, _)
WordsFrom(s, i) ==
  LET b == ScanTo(s, i, FALSE)
      e == ScanTo(s, b, TRUE)
  IN  IF b > Len(s) THEN <<>>
      ELSE <<SubSeq(s, b, e - 1)>> \o WordsFrom(s, e)

Words(s) ==
  WordsFrom(s, 1)

\* str(n) for n >= 0
RECURSIVE Digits(_)
Digits(n) ==
  LET d == <<"0", "1", "2", "3", "4", "5", "6", "7", "8", "9">>[(n % 10) + 1]
  IN  IF n < 10 THEN <<d>> ELSE Append(Digits(n \div 10), d)

(***************************************************************************)
(* The three keyword lists of analyze_text_with_speakers.                  *)
(***************************************************************************)

safety_keywords ==
  << <<"s", "a", "f", "e", "t", "y">>,
     <<"h", "a", "z", "a", "r", "d">>,
     <<"r", "i", "s", "k">>,
     <<"d", "a", "n", "g", "e", "r">>,
     <<"a", "c", "c", "i", "d", "e", "n", "t">>,
     <<"i", "n", "j", "u", "r", "y">>,
     <<"p", "p", "e">>,
     <<"p", "r", "o", "t", "e", "c", "t", "i", "v", "e">>,
     <<"l", "o", "c", "k", "o", "u", "t">>,
     <<"e", "m", "e", "r", "g", "e", "n", "c", "y">> >>

quality_keywords ==
  << <<"d", "e", "f", "e", "c", "t">>,
     <<"q", "u", "a", "l", "i", "t", "y">>,
     <<"i", "n", "s", "p", "e", "c", "t", "i", "o", "n">>,
     <<"t", "o", "l", "e", "r", "a", "n", "c", "e">>,
     <<"r", "e", "j", "e", "c", "t">>,
     <<"s", "t", "a", "n", "d", "a", "r", "d">>,
     <<"c", "o", "m", "p", "l", "i", "a", "n", "c", "e">>,
     <<"t", "e", "s", "t", "i", "n", "g">>,
     <<"s", "p", "e", "c", "i", "f", "i", "c", "a", "t", "i", "o", "n">> >>

production_keywords ==
  << <<"p", "r", "o", "d", "u", "c", "t", "i", "o", "n">>,
     <<"s", "c", "h", "e", "d", "u", "l", "e">>,
     <<"d", "e", "a", "d", "l", "i", "n", "e">>,
     <<"c", "a", "p", "a", "c", "i", "t", "y">>,
     <<"m", "a", "n", "u", "f", "a", "c", "t", "u", "r", "i", "n", "g">>,
     <<"a", "s", "s", "e", "m", "b", "l", "y">>,
     <<"e", "f", "f", "i", "c", "i", "e", "n", "c", "y">>,
     <<"d", "o", "w", "n", "t", "i", "m", "e">> >>

(***************************************************************************)
(* A Python dict (insertion-ordered) is a sequence of items [k, v].        *)
(***************************************************************************)

DictKeys(d) ==
  [i \in 1..Len(d) |-> d[i].k]

\* k in d
DictHas(d, k) ==
  \E i \in 1..Len(d) : d[i].k = k

DictIndex(d, k) ==
  CHOOSE i \in 1..Len(d) : d[i].k = k

\* d[k]
DictGet(d, k) ==
  d[DictIndex(d, k)].v

\* d[k] = v: a new key goes to the end, an existing key keeps its place.
DictSet(d, k, v) ==
  IF DictHas(d, k) THEN [d EXCEPT ![DictIndex(d, k)].v = v]
  ELSE Append(d, [k |-> k, v |-> v])

(***************************************************************************)
(* analyze_text_with_speakers                                              *)
(***************************************************************************)

\* Number of (overlapping) occurrences of sub in s from position i on.
Occurrences(s, sub, i) ==
  Cardinality({j \in i..(Len(s) - Len(sub) + 1) : MatchAt(s, sub, j)})

\* Mutant of KeywordCount: counts every occurrence of a keyword, not its presence.
RECURSIVE KeywordCount_Occurrences(_, _)
KeywordCount_Occurrences(keywords, text_lower) ==
  IF keywords = <<>> THEN 0
  ELSE Occurrences(text_lower, Head(keywords), 1)
       + KeywordCount_Occurrences(Tail(keywords), text_lower)

\* sum(1 for word in keywords if word in text_lower)
RECURSIVE KeywordCount(_, _)
KeywordCount(keywords, text_lower) ==
  IF keywords = <<>> THEN 0
  ELSE (IF Contains(text_lower, Head(keywords)) THEN 1 ELSE 0)
       + KeywordCount(Tail(keywords), text_lower)

\* Mutant of MainTopic: safety wins its ties (>= for >).
MainTopic_SafetyTies(safety_count, quality_count, production_count) ==
  IF safety_count >= quality_count /\ safety_count >= production_count
    THEN "Safety Discussion"
  ELSE IF quality_count > production_count
    THEN "Quality Control"
  ELSE IF production_count > 0
    THEN "Production Planning"
  ELSE "General Discussion"

\* Mutant of MainTopic: quality wins its tie with production (>= for >).
MainTopic_QualityTies(safety_count, quality_count, production_count) ==
  IF safety_count > quality_count /\ safety_count > production_count
    THEN "Safety Discussion"
  ELSE IF quality_count >= production_count
    THEN "Quality Control"
  ELSE IF production_count > 0
    THEN "Production Planning"
  ELSE "General Discussion"

\* Mutant of MainTopic: quality has to lead safety as well.
MainTopic_QualityNeedsLead(safety_count, quality_count, production_count) ==
  IF safety_count > quality_count /\ safety_count > production_count
    THEN "Safety Discussion"
  ELSE IF quality_count > safety_count /\ quality_count > production_count
    THEN "Quality Control"
  ELSE IF production_count > 0
    THEN "Production Planning"
  ELSE "General Discussion"

\* Mutant of MainTopic: production has to lead quality.
MainTopic_ProductionNeedsLead(safety_count, quality_count, production_count) ==
  IF safety_count > quality_count /\ safety_count > production_count
    THEN "Safety Discussion"
  ELSE IF quality_count > production_count
    THEN "Quality Control"
  ELSE IF production_count > quality_count
    THEN "Production Planning"
  ELSE "General Discussion"

\* The if/elif chain that determines the main topic.
MainTopic(safety_count, quality_count, production_count) ==
  IF safety_count > quality_count /\ safety_count > production_count
    THEN "Safety Discussion"
  ELSE IF quality_count > production_count
    THEN "Quality Control"
  ELSE IF production_count > 0
    THEN "Production Planning"
  ELSE "General Discussion"

\* Mutant of Sentences: keeps fragments of trimmed length 10 as well.
RECURSIVE Sentences_AtLeast10(_)
Sentences_AtLeast10(parts) ==
  IF parts = <<>> THEN <<>>
  ELSE LET s == Strip(Head(parts))
       IN  (IF s # <<>> /\ Len(s) >= 10 THEN <<s>> ELSE <<>>)
           \o Sentences_AtLeast10(Tail(parts))

\* [s.strip() for s in text.split('.') if s.strip() and len(s.strip()) > 10]
RECURSIVE Sentences(_)
Sentences(parts) ==
  IF parts = <<>> THEN <<>>
  ELSE LET s == Strip(Head(parts))
       IN  (IF s # <<>> /\ Len(s) > 10 THEN <<s>> ELSE <<>>)
           \o Sentences(Tail(parts))

\* Mutant of KeyPoints: sentences[:6].
KeyPoints_FirstSix(t) ==
  LET sentences == Sentences(Split(t, "."))
  IN  SubSeq(sentences, 1, IF Len(sentences) < 6 THEN Len(sentences) ELSE 6)

\* sentences[:5]
KeyPoints(t) ==
  LET sentences == Sentences(Split(t, "."))
  IN  SubSeq(sentences, 1, IF Len(sentences) < 5 THEN Len(sentences) ELSE 5)

\* Mutant of WordCount: len(text.split(' ')), which counts the empty strings
\* between adjacent blanks and does not split at tabs or newlines.
WordCount_SingleSpace(t) ==
  Len(Split(t, " "))

\* len(text.split())
WordCount(t) ==
  Len(Words(t))

\* Mutant of EstimatedDuration: the tenths are cut off, not rounded.
EstimatedDuration_Truncated(w) ==
  LET tenths == w \div 15
  IN  Digits(tenths \div 10) \o <<".">> \o Digits(tenths % 10)
      \o <<" ", "m", "i", "n", "u", "t", "e", "s">>

\* f"{w / 150:.1f} minutes": w / 150 rounded to the nearest tenth. w / 15 is
\* never halfway between two integers (2w = 30k + 15 has no solution), so the
\* rounding mode of the float formatting does not matter.
EstimatedDuration(w) ==
  LET tenths == (2 * w + 15) \div 30
  IN  Digits(tenths \div 10) \o <<".">> \o Digits(tenths % 10)
      \o <<" ", "m", "i", "n", "u", "t", "e", "s">>

\* Mutant of SpeakerStats: ''.join(utterances), no blank between utterances.
SpeakerStats_JoinedWithoutSpace(utterances) ==
  LET speaker_text == Lower(Join(utterances, <<>>))
  IN  [utterances          |-> Len(utterances),
       words               |-> WordCount(speaker_text),
       safety_mentions     |-> KeywordCount(safety_keywords, speaker_text),
       quality_mentions    |-> KeywordCount(quality_keywords, speaker_text),
       production_mentions |-> KeywordCount(production_keywords, speaker_text)]

\* Mutant of SpeakerStats: the speaker's text is not lowercased.
SpeakerStats_CaseSensitive(utterances) ==
  LET speaker_text == Join(utterances, <<" ">>)
  IN  [utterances          |-> Len(utterances),
       words               |-> WordCount(speaker_text),
       safety_mentions     |-> KeywordCount(safety_keywords, speaker_text),
       quality_mentions    |-> KeywordCount(quality_keywords, speaker_text),
       production_mentions |-> KeywordCount(production_keywords, speaker_text)]

\* The value stored in speaker_analysis[speaker].
SpeakerStats(utterances) ==
  LET speaker_text == Lower(Join(utterances, <<" ">>))
  IN  [utterances          |-> Len(utterances),
       words               |-> WordCount(speaker_text),
       safety_mentions     |-> KeywordCount(safety_keywords, speaker_text),
       quality_mentions    |-> KeywordCount(quality_keywords, speaker_text),
       production_mentions |-> KeywordCount(production_keywords, speaker_text)]

\* for speaker, utterances in speakers.items(): speaker_analysis[speaker] = ...
RECURSIVE SpeakerAnalysis(_, _)
SpeakerAnalysis(items, acc) ==
  IF items = <<>> THEN acc
  ELSE SpeakerAnalysis(Tail(items),
                       DictSet(acc, Head(items).k, SpeakerStats(Head(items).v)))

\* Mutant of TotalSpeakers: a count of 0 falls back to the default 1.
TotalSpeakers_OrDefault(sd) ==
  IF sd.speaker_count = 0 THEN 1 ELSE sd.speaker_count

\* speaker_data.get("speaker_count", 1): detect_speakers_ai always sets the key.
TotalSpeakers(sd) ==
  sd.speaker_count

analyze_text_with_speakers(t, sd) ==
  LET text_lower       == Lower(t)
      safety_count     == KeywordCount(safety_keywords, text_lower)
      quality_count    == KeywordCount(quality_keywords, text_lower)
      production_count == KeywordCount(production_keywords, text_lower)
  IN  [main_topic          |-> MainTopic(safety_count, quality_count, production_count),
       safety_mentions     |-> safety_count,
       quality_mentions    |-> quality_count,
       production_mentions |-> production_count,
       key_points          |-> KeyPoints(t),
       word_count          |-> WordCount(t),
       estimated_duration  |-> EstimatedDuration(WordCount(t)),
       speaker_analysis    |-> SpeakerAnalysis(sd.speakers, <<>>),
       total_speakers      |-> TotalSpeakers(sd)]

(***************************************************************************)
(* The copies of detect_speakers_ai and analyze_text_with_speakers in       *)
(* streamlit_app.py (lines 129-236), each as one function of its arguments. *)
(***************************************************************************)

streamlit_safety_keywords ==
  << <<"s", "a", "f", "e", "t", "y">>,
     <<"h", "a", "z", "a", "r", "d">>,
     <<"r", "i", "s", "k">>,
     <<"d", "a", "n", "g", "e", "r">>,
     <<"a", "c", "c", "i", "d", "e", "n", "t">>,
     <<"i", "n", "j", "u", "r", "y">>,
     <<"p", "p", "e">>,
     <<"p", "r", "o", "t", "e", "c", "t", "i", "v", "e">>,
     <<"l", "o", "c", "k", "o", "u", "t">>,
     <<"e", "m", "e", "r", "g", "e", "n", "c", "y">> >>

streamlit_quality_keywords ==
  << <<"d", "e", "f", "e", "c", "t">>,
     <<"q", "u", "a", "l", "i", "t", "y">>,
     <<"i", "n", "s", "p", "e", "c", "t", "i", "o", "n">>,
     <<"t", "o", "l", "e", "r", "a", "n", "c", "e">>,
     <<"r", "e", "j", "e", "c", "t">>,
     <<"s", "t", "a", "n", "d", "a", "r", "d">>,
     <<"c", "o", "m", "p", "l", "i", "a", "n", "c", "e">>,
     <<"t", "e", "s", "t", "i", "n", "g">>,
     <<"s", "p", "e", "c", "i", "f", "i", "c", "a", "t", "i", "o", "n">> >>

streamlit_production_keywords ==
  << <<"p", "r", "o", "d", "u", "c", "t", "i", "o", "n">>,
     <<"s", "c", "h", "e", "d", "u", "l", "e">>,
     <<"d", "e", "a", "d", "l", "i", "n", "e">>,
     <<"c", "a", "p", "a", "c", "i", "t", "y">>,
     <<"m", "a", "n", "u", "f", "a", "c", "t", "u", "r", "i", "n", "g">>,
     <<"a", "s", "s", "e", "m", "b", "l", "y">>,
     <<"e", "f", "f", "i", "c", "i", "e", "n", "c", "y">>,
     <<"d", "o", "w", "n", "t", "i", "m", "e">> >>

\* Mutant of streamlit_parse_line: the line is split at its last colon.
streamlit_parse_line_LastColon(speakers_, line_) ==
  LET line_1 == Strip(line_)
  IN  IF ~HasChar(line_1, ":") THEN speakers_
      ELSE LET parts    == SplitOnce_Last(line_1, ":")
               speaker_ == Strip(parts[1])
               text_    == Strip(parts[2])
           IN  IF DictHas(speakers_, speaker_)
               THEN DictSet(speakers_, speaker_, Append(DictGet(speakers_, speaker_), text_))
               ELSE DictSet(speakers_, speaker_, <<text_>>)

\* The body of `for line in lines` (168-176).
streamlit_parse_line(speakers_, line_) ==
  LET line_1 == Strip(line_)
  IN  IF ~HasChar(line_1, ":") THEN speakers_
      ELSE LET parts    == SplitOnce(line_1, ":")
               speaker_ == Strip(parts[1])
               text_    == Strip(parts[2])
           IN  IF DictHas(speakers_, speaker_)
               THEN DictSet(speakers_, speaker_, Append(DictGet(speakers_, speaker_), text_))
               ELSE DictSet(speakers_, speaker_, <<text_>>)

\* speakers after the first n lines of the loop (164-176).
RECURSIVE streamlit_parse(_, _)
streamlit_parse(lines_, n) ==
  IF n = 0 THEN <<>>
  ELSE streamlit_parse_line(streamlit_parse(lines_, n - 1), lines_[n])

\* detect_speakers_ai(text, client), for the response of the client: None when
\* the call raises.  Reading the content of an unreadable response raises too.
streamlit_detect_speakers_ai(text_, response_) ==
  IF response_ # <<>> /\ response_[1].readable
  THEN LET formatted_conversation_ == Strip(response_[1].content)
           lines_                  == Split(formatted_conversation_, "\n")
           speakers_               == streamlit_parse(lines_, Len(lines_))
       IN  [formatted_conversation |-> formatted_conversation_,
            speakers               |-> speakers_,
            speaker_count          |-> Len(speakers_)]
  ELSE [formatted_conversation |-> <<"S", "p", "e", "a", "k", "e", "r", " ", "A", ":", " ">> \o text_,
        speakers               |-> <<[k |-> <<"S", "p", "e", "a", "k", "e", "r", " ", "A">>, v |-> <<text_>>]>>,
        speaker_count          |-> 1]

\* sum(1 for word in keywords if word in text) (199-201, 220-222)
streamlit_count(keywords, text_) ==
  Cardinality({i \in 1..Len(keywords) : Contains(text_, keywords[i])})

\* The if/elif chain (203-210).
streamlit_main_topic(safety_count, quality_count, production_count) ==
  CASE safety_count > quality_count /\ safety_count > production_count
         -> "Safety Discussion"
    [] ~(safety_count > quality_count /\ safety_count > production_count)
       /\ quality_count > production_count
         -> "Quality Control"
    [] ~(safety_count > quality_count /\ safety_count > production_count)
       /\ ~(quality_count > production_count) /\ production_count > 0
         -> "Production Planning"
    [] OTHER
         -> "General Discussion"

\* sentences[:5] of the list comprehension (212-213).
streamlit_key_points(text_) ==
  LET parts     == Split(text_, ".")
      Kept(s)   == Strip(s) # <<>> /\ Len(Strip(s)) > 10
      kept      == SelectSeq(parts, Kept)
      sentences == [i \in 1..Len(kept) |-> Strip(kept[i])]
  IN  [i \in 1..(IF Len(sentences) > 5 THEN 5 ELSE Len(sentences)) |-> sentences[i]]

\* The entry of speaker_analysis for one speaker (217-223).
streamlit_speaker_entry(utterances) ==
  LET speaker_text == Lower(Join(utterances, <<" ">>))
  IN  [utterances          |-> Len(utterances),
       words               |-> Len(Words(speaker_text)),
       safety_mentions     |-> streamlit_count(streamlit_safety_keywords, speaker_text),
       quality_mentions    |-> streamlit_count(streamlit_quality_keywords, speaker_text),
       production_mentions |-> streamlit_count(streamlit_production_keywords, speaker_text)]

\* f"{n / 150:.1f} minutes" (233): the tenths are n / 15 rounded to the nearest
\* integer, which is never a tie.
streamlit_estimated_duration(n) ==
  LET tenths == CHOOSE m \in 0..n : 2 * (15 * m - n) < 15 /\ 2 * (n - 15 * m) < 15
  IN  Digits(tenths \div 10) \o <<".">> \o Digits(tenths % 10) \o <<" ", "m", "i", "n", "u", "t", "e", "s">>

\* analyze_text_with_speakers(text, speaker_data) (191-236).  The keys of
\* speaker_data["speakers"] are distinct, so the loop writes one entry per item,
\* in the order of the items.
streamlit_analyze_text_with_speakers(text_, speaker_data_) ==
  LET text_lower       == Lower(text_)
      safety_count     == streamlit_count(streamlit_safety_keywords, text_lower)
      quality_count    == streamlit_count(streamlit_quality_keywords, text_lower)
      production_count == streamlit_count(streamlit_production_keywords, text_lower)
      items            == speaker_data_.speakers
  IN  [main_topic          |-> streamlit_main_topic(safety_count, quality_count, production_count),
       safety_mentions     |-> safety_count,
       quality_mentions    |-> quality_count,
       production_mentions |-> production_count,
       key_points          |-> streamlit_key_points(text_),
       word_count          |-> Len(Words(text_)),
       estimated_duration  |-> streamlit_estimated_duration(Len(Words(text_))),
       speaker_analysis    |-> [i \in 1..Len(items) |->
                                  [k |-> items[i].k, v |-> streamlit_speaker_entry(items[i].v)]],
       total_speakers      |-> speaker_data_.speaker_count]

(***************************************************************************)
(* Bounded inputs.                                                         *)
(***************************************************************************)

None == <<>>
Some(x) == <<x>>

\* All sequences of at most n elements of S.
SeqUpTo(S, n) ==
  UNION {[1..k -> S] : k \in 0..n}

MaxWords == 3
MaxLines == 3
MaxAttempts == 2

\* Transcript fragments: "Safety", "brisk", "quality", "REJECTED", "schedule",
\* "deadlines", "hello", "hazard inspection".
WordPool ==
  { <<"S", "a", "f", "e", "t", "y">>,
    <<"b", "r", "i", "s", "k">>,
    <<"q", "u", "a", "l", "i", "t", "y">>,
    <<"R", "E", "J", "E", "C", "T", "E", "D">>,
    <<"s", "c", "h", "e", "d", "u", "l", "e">>,
    <<"d", "e", "a", "d", "l", "i", "n", "e", "s">>,
    <<"h", "e", "l", "l", "o">>,
    <<"h", "a", "z", "a", "r", "d", " ", "i", "n", "s", "p", "e", "c", "t", "i", "o", "n">> }

\* Transcripts for the analyzer: up to MaxWords fragments joined by spaces.
TranscriptsA ==
  {Join(ws, <<" ">>) : ws \in SeqUpTo(WordPool, MaxWords)}

\* Lines of a provider answer: "A: hi", "B: ok", " A : re: it ", "and so on",
\* "", ":x".
LinePool ==
  { <<"A", ":", " ", "h", "i">>,
    <<"B", ":", " ", "o", "k">>,
    <<" ", "A", " ", ":", " ", "r", "e", ":", " ", "i", "t", " ">>,
    <<"a", "n", "d", " ", "s", "o", " ", "o", "n">>,
    <<>>,
    <<":", "x">> }

\* What the chat-completions call can return: a message whose content is a
\* str, or a response whose content cannot be read (content None, no choices).
Readable(content) ==
  [readable |-> TRUE, content |-> content]

Unreadable ==
  [readable |-> FALSE, content |-> <<>>]

\* "Speaker A: We need PPE and safety training. Speaker B: Agreed, schedule
\* it.": two turns on one line.
OneLineDialogue ==
  <<"S", "p", "e", "a", "k", "e", "r", " ", "A", ":", " ", "W", "e", " ", "n", "e", "e", "d", " ", "P", "P", "E", " ", "a", "n", "d", " ", "s", "a", "f", "e", "t", "y", " ", "t", "r", "a", "i", "n", "i", "n", "g", ".", " ", "S", "p", "e", "a", "k", "e", "r", " ", "B", ":", " ", "A", "g", "r", "e", "e", "d", ",", " ", "s", "c", "h", "e", "d", "u", "l", "e", " ", "i", "t", ".">>

\* Provider answers for the parser: up to MaxLines lines joined by "\n", the
\* one-line dialogue, and an answer that cannot be read.
ResponsesP ==
  {Readable(Join(ls, <<"\n">>)) : ls \in SeqUpTo(LinePool, MaxLines)}
    \cup {Readable(OneLineDialogue), Unreadable}

HelloTeam ==
  <<"H", "e", "l", "l", "o", " ", "t", "e", "a", "m", ".">>

\* " Safety first. \n": a transcript with whitespace around it.
SafetyFirst ==
  <<" ", "S", "a", "f", "e", "t", "y", " ", "f", "i", "r", "s", "t", ".", " ", "\n">>

TwoSpeakers ==
  <<"S", "p", "e", "a", "k", "e", "r", " ", "A", ":", " ", "S", "a", "f", "e", "t", "y", " ", "f", "i", "r", "s", "t", "\n", "S", "p", "e", "a", "k", "e", "r", " ", "B", ":", " ", "o", "k">>

NoLabels ==
  <<"n", "o", " ", "l", "a", "b", "e", "l", "s", " ", "h", "e", "r", "e">>

\* Provider answers for the analyzer runs.
ResponsesA ==
  {Readable(TwoSpeakers)}

\* Transcripts and provider answers of the application runs.
TranscriptsApp ==
  {HelloTeam, SafetyFirst}

ResponsesApp ==
  {Readable(TwoSpeakers), Readable(NoLabels), Unreadable}

\* Transcripts made of sentences.  Sentence n of a transcript is either
\* " point n here " (12 characters once trimmed) or "\tn is short  " (10
\* characters once trimmed, 13 with its whitespace); each is followed by ".".
MaxSentences == 7

LongSentence(n) ==
  <<" ", "p", "o", "i", "n", "t", " ">> \o Digits(n) \o <<" ", "h", "e", "r", "e", " ">>

ShortSentence(n) ==
  <<"\t">> \o Digits(n) \o <<" ", "i", "s", " ", "s", "h", "o", "r", "t", " ", " ">>

RECURSIVE Paragraph(_, _)
Paragraph(kinds, n) ==
  IF n > Len(kinds) THEN <<>>
  ELSE (IF kinds[n] = "long" THEN LongSentence(n) ELSE ShortSentence(n))
       \o <<".">> \o Paragraph(kinds, n + 1)

\* "Safety first. Quality matters too. We also discuss production schedules
\* and capacity."
ProductionTalk ==
  <<"S", "a", "f", "e", "t", "y", " ", "f", "i", "r", "s", "t", ".", " ", "Q", "u", "a", "l", "i", "t", "y", " ", "m", "a", "t", "t", "e", "r", "s", " ", "t", "o", "o", ".", " ", "W", "e", " ", "a", "l", "s", "o", " ", "d", "i", "s", "c", "u", "s", "s", " ", "p", "r", "o", "d", "u", "c", "t", "i", "o", "n", " ", "s", "c", "h", "e", "d", "u", "l", "e", "s", " ", "a", "n", "d", " ", "c", "a", "p", "a", "c", "i", "t", "y", ".">>

TranscriptsS ==
  {Paragraph(kinds, 1) : kinds \in SeqUpTo({"long", "short"}, MaxSentences)}
    \cup {ProductionTalk}

\* Lines of a provider answer whose utterances mention keywords: "A: Safety
\* first", "B: quality  REJECTED", "A: brisk hazard", "B: on schedule", "C:",
\* "A: SAFETY\tdeadlines".
LinePoolS ==
  { <<"A", ":", " ", "S", "a", "f", "e", "t", "y", " ", "f", "i", "r", "s", "t">>,
    <<"B", ":", " ", "q", "u", "a", "l", "i", "t", "y", " ", " ", "R", "E", "J", "E", "C", "T", "E", "D">>,
    <<"A", ":", " ", "b", "r", "i", "s", "k", " ", "h", "a", "z", "a", "r", "d">>,
    <<"B", ":", " ", "o", "n", " ", "s", "c", "h", "e", "d", "u", "l", "e">>,
    <<"C", ":">>,
    <<"A", ":", " ", "S", "A", "F", "E", "T", "Y", "\t", "d", "e", "a", "d", "l", "i", "n", "e", "s">> }

\* Provider answers for the per-speaker statistics.
ResponsesS ==
  {Readable(Join(ls, <<"\n">>)) : ls \in SeqUpTo(LinePoolS, MaxLines)}

\* Transcripts of w words "a" separated by blanks, for every w up to
\* MaxDurationWords.
MaxDurationWords == 150

TranscriptsW ==
  {[i \in 1..(2 * w) |-> IF i % 2 = 1 THEN "a" ELSE " "] : w \in 0..MaxDurationWords}

(***************************************************************************)
(* State.                                                                  *)
(***************************************************************************)

\* File sizes in MB are kept in two classes: LimitMB stands for a file of at
\* most 25 MB, LimitMB + 1 for a larger one.
LimitMB == 25

SizesMB ==
  {LimitMB, LimitMB + 1}

VARIABLES
  app,                     \* the script that runs: "demo" or "streamlit"
  uploaded,                \* main: uploaded_file, None or the upload's size
  pregenerated,            \* disk: None or the size of the file in sample_audio/
  generated,               \* disk: the on-demand sample's temp file exists
  sample_file,             \* st.session_state.sample_file: "none" (not set),
                           \* "pregenerated" or "generated" (the path it holds)
  temp_flag,               \* st.session_state.temp_file is set and true
  source,                  \* main: file_to_process of the attempt, None or
                           \* [kind |-> "upload" or "sample", size |-> MB]
  calls,                   \* log: provider and analyzer calls of the attempt
  reports,                 \* log: the attempt, the two arguments and the result
                           \* of every call of analyze_text_with_speakers so far
  pc,                      \* position of the "Process Audio" handler
  attempts,                \* number of processing attempts started
  tmp_file,                \* main: the temp copy of the upload exists on disk
  transcript,              \* main: transcript.text, None before transcription
  text,                    \* detect_speakers_ai: the parameter/local `text`
  response,                \* detect_speakers_ai: the provider's response
  formatted_conversation,  \* detect_speakers_ai: local
  lines,                   \* detect_speakers_ai: local
  idx,                     \* detect_speakers_ai: position of `for line in lines`
  speaker,                 \* detect_speakers_ai: local
  speakers,                \* detect_speakers_ai: local dict
  speaker_data,            \* main: local
  analysis,                \* main: local
  session,                 \* st.session_state: None or the stored results
  outcome                  \* what the handler showed: "none", "success", "error"

vars ==
  <<app, uploaded, pregenerated, generated, sample_file, temp_flag, source, calls,
    reports, pc, attempts, tmp_file, transcript, text, response,
    formatted_conversation, lines, idx, speaker, speakers, speaker_data, analysis,
    session, outcome>>

\* The files on disk and what the page holds of them.
files ==
  <<app, uploaded, pregenerated, generated, sample_file, temp_flag, source>>

detect_locals ==
  <<text, response, formatted_conversation, lines, idx, speaker, speakers>>

\* The locals of a fresh script run.
FreshLocals ==
  /\ transcript = None
  /\ text = <<>>
  /\ response = None
  /\ formatted_conversation = None
  /\ lines = <<>>
  /\ idx = 0
  /\ speaker = None
  /\ speakers = <<>>
  /\ speaker_data = None
  /\ analysis = None

\* Either application before any file was chosen.  sample_audio/ holds what
\* was put there before the start; demo.py does not read it.
Init ==
  /\ app \in {"demo", "streamlit"}
  /\ uploaded = None
  /\ pregenerated \in (IF app = "demo" THEN {None}
                       ELSE {None} \cup {Some(mb) : mb \in SizesMB})
  /\ generated = FALSE
  /\ sample_file = "none"
  /\ temp_flag = FALSE
  /\ source = None
  /\ calls = <<>>
  /\ reports = <<>>
  /\ pc = "idle"
  /\ attempts = 0
  /\ tmp_file = FALSE
  /\ FreshLocals
  /\ session = None
  /\ outcome = "none"

(***************************************************************************)
(* detect_speakers_ai                                                      *)
(***************************************************************************)

\* Mutant of SpeakerPart: the label is not stripped.
SpeakerPart_NoStrip(line) ==
  SplitOnce(line, ":")[1]

\* speaker_part.strip() of speaker_part, text_part = line.split(':', 1)
SpeakerPart(line) ==
  Strip(SplitOnce(line, ":")[1])

\* Mutant of TextPart: the utterance is not stripped.
TextPart_NoStrip(line) ==
  SplitOnce(line, ":")[2]

\* text_part.strip()
TextPart(line) ==
  Strip(SplitOnce(line, ":")[2])

\* Mutant of AddUtterance: the list is reset without the membership test.
AddUtterance_Reset(d, sp, tx) ==
  LET d1 == DictSet(d, sp, <<>>)
  IN  DictSet(d1, sp, Append(DictGet(d1, sp), tx))

\* Mutant of AddUtterance: an utterance the speaker already has is not appended.
AddUtterance_Dedup(d, sp, tx) ==
  LET d1 == IF ~DictHas(d, sp) THEN DictSet(d, sp, <<>>) ELSE d
      v  == DictGet(d1, sp)
  IN  IF \E i \in 1..Len(v) : v[i] = tx THEN d1
      ELSE DictSet(d1, sp, Append(v, tx))

\* if speaker not in speakers: speakers[speaker] = []
\* speakers[speaker].append(text)
AddUtterance(d, sp, tx) ==
  LET d1 == IF ~DictHas(d, sp) THEN DictSet(d, sp, <<>>) ELSE d
  IN  DictSet(d1, sp, Append(DictGet(d1, sp), tx))

\* Mutant of ParseStep: a non-empty line without a colon continues the last
\* utterance of the last registered speaker.
ParseStep_Continuation(d, raw) ==
  LET line == Strip(raw)
  IN  IF HasChar(line, ":")
      THEN AddUtterance(d, SpeakerPart(line), TextPart(line))
      ELSE IF d # <<>> /\ line # <<>>
      THEN [d EXCEPT ![Len(d)].v[Len(d[Len(d)].v)] = @ \o <<" ">> \o line]
      ELSE d

\* The body of `for line in lines` applied to the dict, for one line.
ParseStep(d, raw) ==
  LET line == Strip(raw)
  IN  IF HasChar(line, ":")
      THEN AddUtterance(d, SpeakerPart(line), TextPart(line))
      ELSE d

\* Mutant of ParsedData: speaker_count counts the labeled lines, not the keys.
ParsedData_CountsLines(fc, d) ==
  LET ls == Split(fc, "\n")
  IN  [formatted_conversation |-> fc,
       speakers               |-> d,
       speaker_count          |-> Cardinality({i \in 1..Len(ls) : HasChar(ls[i], ":")})]

\* The dict returned by the try block.
ParsedData(fc, d) ==
  [formatted_conversation |-> fc,
   speakers               |-> d,
   speaker_count          |-> Len(d)]

SpeakerA ==
  <<"S", "p", "e", "a", "k", "e", "r", " ", "A">>

\* Mutant of FallbackData: the transcript is stripped before it is stored.
FallbackData_Stripped(t) ==
  [formatted_conversation |-> SpeakerA \o <<":", " ">> \o Strip(t),
   speakers               |-> <<[k |-> SpeakerA, v |-> <<Strip(t)>>]>>,
   speaker_count          |-> 1]

\* The dict returned by the except block.
FallbackData(t) ==
  [formatted_conversation |-> SpeakerA \o <<":", " ">> \o t,
   speakers               |-> <<[k |-> SpeakerA, v |-> <<t>>]>>,
   speaker_count          |-> 1]

\* client.chat.completions.create(...) returns a response.
ProviderReturns(R) ==
  /\ pc = "label"
  /\ \E r \in R : response' = Some(r)
  /\ text' = transcript[1]
  /\ calls' = Append(calls, "labeled")
  /\ pc' = "read"
  /\ UNCHANGED <<files, reports, attempts, tmp_file, transcript,
                 formatted_conversation, lines, idx, speaker, speakers,
                 speaker_data, analysis, session, outcome>>

\* client.chat.completions.create(...) raises.
ProviderRaises ==
  /\ pc = "label"
  /\ text' = transcript[1]
  /\ calls' = Append(calls, "labeling failed")
  /\ pc' = "fallback"
  /\ UNCHANGED <<files, reports, attempts, tmp_file, transcript, response,
                 formatted_conversation, lines, idx, speaker, speakers,
                 speaker_data, analysis, session, outcome>>

\* formatted_conversation = response.choices[0].message.content.strip(), which
\* raises when the content cannot be read; then speakers = {} and the split.
ReadResponse ==
  /\ pc = "read"
  /\ IF response[1].readable
     THEN /\ formatted_conversation' = Some(Strip(response[1].content))
          /\ speakers' = <<>>
          /\ lines' = Split(Strip(response[1].content), "\n")
          /\ idx' = 1
          /\ pc' = "parse"
     ELSE /\ pc' = "fallback"
          /\ UNCHANGED <<formatted_conversation, speakers, lines, idx>>
  /\ UNCHANGED <<files, calls, reports, attempts, tmp_file, transcript, text,
                 response, speaker, speaker_data, analysis, session, outcome>>

\* One iteration of `for line in lines`.
ParseLine ==
  /\ pc = "parse"
  /\ idx <= Len(lines)
  /\ LET line == Strip(lines[idx])
     IN  IF HasChar(line, ":")
         THEN /\ speaker' = Some(SpeakerPart(line))
              /\ text' = TextPart(line)
         ELSE UNCHANGED <<speaker, text>>
  /\ speakers' = ParseStep(speakers, lines[idx])
  /\ idx' = idx + 1
  /\ UNCHANGED <<files, calls, reports, pc, attempts, tmp_file, transcript,
                 response, formatted_conversation, lines, speaker_data, analysis,
                 session, outcome>>

\* The loop is over: return the parsed dict to main.
ReturnParsed ==
  /\ pc = "parse"
  /\ idx > Len(lines)
  /\ speaker_data' = Some(ParsedData(formatted_conversation[1], speakers))
  /\ pc' = "analyze"
  /\ UNCHANGED <<files, calls, reports, attempts, tmp_file, transcript,
                 detect_locals, analysis, session, outcome>>

\* Mutant of Fallback: the exception is re-raised to main.
Fallback_Propagates ==
  /\ pc = "fallback"
  /\ pc' = "except"
  /\ UNCHANGED <<files, calls, reports, attempts, tmp_file, transcript,
                 detect_locals, speaker_data, analysis, session, outcome>>

\* except Exception: return the single-speaker fallback.
Fallback ==
  /\ pc = "fallback"
  /\ speaker_data' = Some(FallbackData(text))
  /\ pc' = "analyze"
  /\ UNCHANGED <<files, calls, reports, attempts, tmp_file, transcript,
                 detect_locals, analysis, session, outcome>>

(***************************************************************************)
(* main: the files of the page.  demo.py has the uploader only;            *)
(* streamlit_app.py also has the sample buttons (line numbers of           *)
(* streamlit_app.py where the text says so).                               *)
(***************************************************************************)

\* A file is put into the uploader, or taken out of it.
Upload ==
  /\ pc \in {"idle", "done"}
  /\ \E mb \in SizesMB : uploaded' = Some(mb)
  /\ UNCHANGED <<app, pregenerated, generated, sample_file, temp_flag, source, calls,
                 reports, pc, attempts, tmp_file, transcript, detect_locals,
                 speaker_data, analysis, session, outcome>>

ClearUpload ==
  /\ pc \in {"idle", "done"}
  /\ uploaded # None
  /\ uploaded' = None
  /\ UNCHANGED <<app, pregenerated, generated, sample_file, temp_flag, source, calls,
                 reports, pc, attempts, tmp_file, transcript, detect_locals,
                 speaker_data, analysis, session, outcome>>

\* create_sample_audio.py writes sample_audio/*.mp3: short text-to-speech
\* files, far below the limit.
InstallSamples ==
  /\ app = "streamlit"
  /\ pc \in {"idle", "done"}
  /\ pregenerated = None
  /\ pregenerated' = Some(LimitMB)
  /\ UNCHANGED <<app, uploaded, generated, sample_file, temp_flag, source, calls,
                 reports, pc, attempts, tmp_file, transcript, detect_locals,
                 speaker_data, analysis, session, outcome>>

\* streamlit_app.py 447-451: a "Load ... Sample" button of a pre-generated
\* file; load_sample_audio_files lists the files that exist in sample_audio/.
LoadSample ==
  /\ app = "streamlit"
  /\ pc \in {"idle", "done"}
  /\ pregenerated # None
  /\ sample_file' = "pregenerated"
  /\ UNCHANGED <<app, uploaded, pregenerated, generated, temp_flag, source, calls,
                 reports, pc, attempts, tmp_file, transcript, detect_locals,
                 speaker_data, analysis, session, outcome>>

\* streamlit_app.py 452-466: a "Load ... Sample" button when sample_audio/ has
\* no file: the sample is generated into a temp file and marked temporary.
GenerateSample ==
  /\ app = "streamlit"
  /\ pc \in {"idle", "done"}
  /\ pregenerated = None
  /\ generated' = TRUE
  /\ sample_file' = "generated"
  /\ temp_flag' = TRUE
  /\ UNCHANGED <<app, uploaded, pregenerated, source, calls, reports, pc, attempts,
                 tmp_file, transcript, detect_locals, speaker_data, analysis,
                 session, outcome>>

\* os.path.exists(st.session_state.sample_file), when the attribute is set.
SampleExists ==
  \/ sample_file = "pregenerated" /\ pregenerated # None
  \/ sample_file = "generated" /\ generated

\* os.path.getsize(st.session_state.sample_file), in MB.
SampleSize ==
  IF sample_file = "pregenerated" THEN pregenerated[1] ELSE LimitMB

\* demo.py 196-205, streamlit_app.py 477-498: the file the button would
\* process.  An upload comes first; an upload above the limit stops the script
\* before the button is drawn.  The sample's size is shown, not compared.
FileToProcess ==
  IF uploaded # None
    THEN IF uploaded[1] > LimitMB THEN None
         ELSE Some([kind |-> "upload", size |-> uploaded[1]])
  ELSE IF app = "streamlit" /\ sample_file # "none" /\ SampleExists
    THEN Some([kind |-> "sample", size |-> SampleSize])
  ELSE None

(***************************************************************************)
(* main: the "Process Audio" handler.                                      *)
(***************************************************************************)

\* The button is clicked: a fresh script run creates the client and, for an
\* upload, writes its temp copy.
ClickProcess ==
  /\ pc \in {"idle", "done"}
  /\ attempts < MaxAttempts
  /\ FileToProcess # None
  /\ source' = FileToProcess
  /\ attempts' = attempts + 1
  /\ tmp_file' = (FileToProcess[1].kind = "upload")
  /\ calls' = <<>>
  /\ transcript' = None
  /\ text' = <<>>
  /\ response' = None
  /\ formatted_conversation' = None
  /\ lines' = <<>>
  /\ idx' = 0
  /\ speaker' = None
  /\ speakers' = <<>>
  /\ speaker_data' = None
  /\ analysis' = None
  /\ outcome' = "none"
  /\ pc' = "transcribe"
  /\ UNCHANGED <<app, uploaded, pregenerated, generated, sample_file, temp_flag,
                 reports, session>>

\* client.audio.transcriptions.create(...) returns a transcript.
TranscribeOk(T) ==
  /\ pc = "transcribe"
  /\ \E t \in T : transcript' = Some(t)
  /\ calls' = Append(calls, "transcribed")
  /\ pc' = "label"
  /\ UNCHANGED <<files, reports, attempts, tmp_file, detect_locals, speaker_data,
                 analysis, session, outcome>>

\* Mutant of TranscribeFails: the exception is swallowed and the handler goes
\* on with an empty transcript.
TranscribeFails_Swallowed ==
  /\ pc = "transcribe"
  /\ calls' = Append(calls, "transcription failed")
  /\ transcript' = Some(<<>>)
  /\ pc' = "label"
  /\ UNCHANGED <<files, reports, attempts, tmp_file, detect_locals, speaker_data,
                 analysis, session, outcome>>

\* client.audio.transcriptions.create(...) raises.
TranscribeFails ==
  /\ pc = "transcribe"
  /\ calls' = Append(calls, "transcription failed")
  /\ pc' = "except"
  /\ UNCHANGED <<files, reports, attempts, tmp_file, transcript, detect_locals,
                 speaker_data, analysis, session, outcome>>

\* Mutant of Analyze: a counter of the analyzer survives from call to call.
Analyze_Accumulating ==
  /\ pc = "analyze"
  /\ LET report == [analyze_text_with_speakers(transcript[1], speaker_data[1])
                      EXCEPT !.word_count = @ + Len(reports)]
     IN  /\ analysis' = Some(report)
         /\ reports' = Append(reports, [attempt      |-> attempts,
                                        transcript   |-> transcript[1],
                                        speaker_data |-> speaker_data[1],
                                        analysis     |-> report])
  /\ calls' = Append(calls, "analyzed")
  /\ pc' = "store"
  /\ UNCHANGED <<files, attempts, tmp_file, transcript, detect_locals, speaker_data,
                 session, outcome>>

\* analysis = analyze_text_with_speakers(transcript.text, speaker_data)
Analyze ==
  /\ pc = "analyze"
  /\ LET report == analyze_text_with_speakers(transcript[1], speaker_data[1])
     IN  /\ analysis' = Some(report)
         /\ reports' = Append(reports, [attempt      |-> attempts,
                                        transcript   |-> transcript[1],
                                        speaker_data |-> speaker_data[1],
                                        analysis     |-> report])
  /\ calls' = Append(calls, "analyzed")
  /\ pc' = "store"
  /\ UNCHANGED <<files, attempts, tmp_file, transcript, detect_locals, speaker_data,
                 session, outcome>>

\* The clean-up after the analysis.  demo.py 236: the temp copy is unlinked.
\* streamlit_app.py 530-539: the temp copy of an upload is unlinked; for a
\* sample, when st.session_state.temp_file is true, the sample's file is
\* unlinked and the flag cleared.
CleanUp ==
  IF source[1].kind = "upload"
    THEN /\ tmp_file' = FALSE
         /\ UNCHANGED <<pregenerated, generated, temp_flag>>
  ELSE IF temp_flag
    THEN /\ pregenerated' = IF sample_file = "pregenerated" THEN None ELSE pregenerated
         /\ generated' = IF sample_file = "generated" THEN FALSE ELSE generated
         /\ temp_flag' = FALSE
         /\ UNCHANGED tmp_file
  ELSE UNCHANGED <<tmp_file, pregenerated, generated, temp_flag>>

\* Mutant of Store: the transcript is stored only when none is stored yet.
Store_KeepsFirstTranscript ==
  /\ pc = "store"
  /\ CleanUp
  /\ session' = Some([transcript     |-> IF session # None THEN session[1].transcript
                                         ELSE transcript[1],
                      speaker_data   |-> speaker_data[1],
                      analysis       |-> analysis[1],
                      timestamp      |-> attempts,
                      processed_file |-> IF app = "streamlit"
                                           THEN Some(source[1].kind) ELSE None])
  /\ outcome' = "success"
  /\ pc' = "done"
  /\ UNCHANGED <<app, uploaded, sample_file, source, calls, reports, attempts,
                 transcript, detect_locals, speaker_data, analysis>>

\* The clean-up, the session_state assignments, st.success.  The timestamp is
\* the time of the attempt, read here as its number; streamlit_app.py also
\* stores processed_file, the name of the file.
Store ==
  /\ pc = "store"
  /\ CleanUp
  /\ session' = Some([transcript     |-> transcript[1],
                      speaker_data   |-> speaker_data[1],
                      analysis       |-> analysis[1],
                      timestamp      |-> attempts,
                      processed_file |-> IF app = "streamlit"
                                           THEN Some(source[1].kind) ELSE None])
  /\ outcome' = "success"
  /\ pc' = "done"
  /\ UNCHANGED <<app, uploaded, sample_file, source, calls, reports, attempts,
                 transcript, detect_locals, speaker_data, analysis>>

\* Mutant of Except: the handler does not unlink the temp copy.
Except_KeepsCopy ==
  /\ pc = "except"
  /\ outcome' = "error"
  /\ pc' = "done"
  /\ UNCHANGED <<files, calls, reports, attempts, tmp_file, transcript,
                 detect_locals, speaker_data, analysis, session>>

\* Mutant of Except: the error handler also clears the stored results.
Except_ClearsSession ==
  /\ pc = "except"
  /\ outcome' = "error"
  /\ tmp_file' = FALSE
  /\ session' = None
  /\ pc' = "done"
  /\ UNCHANGED <<files, calls, reports, attempts, transcript, detect_locals,
                 speaker_data, analysis>>

\* except Exception: st.error, and the temp copy of an upload is unlinked.
Except ==
  /\ pc = "except"
  /\ outcome' = "error"
  /\ tmp_file' = FALSE
  /\ pc' = "done"
  /\ UNCHANGED <<files, calls, reports, attempts, transcript, detect_locals,
                 speaker_data, analysis, session>>

(***************************************************************************)
(* main: the results column.                                               *)
(***************************************************************************)

\* st.stop() after "File too large": nothing below the uploader is drawn.
Stopped ==
  uploaded # None /\ uploaded[1] > LimitMB

\* if hasattr(st.session_state, 'transcript'): the download button is drawn.
ExportOffered ==
  ~Stopped /\ session # None

\* The dict `results` that the download button serialises.
results ==
  [original_transcript        |-> session[1].transcript,
   conversation_with_speakers |-> session[1].speaker_data.formatted_conversation,
   analysis                   |-> session[1].analysis,
   timestamp                  |-> session[1].timestamp]

(***************************************************************************)
(* Specifications.                                                         *)
(***************************************************************************)

\* Either application: files are chosen and processed one after the other.
Next ==
  \/ Upload
  \/ ClearUpload
  \/ InstallSamples
  \/ LoadSample
  \/ GenerateSample
  \/ ClickProcess
  \/ TranscribeOk(TranscriptsApp)
  \/ TranscribeFails
  \/ ProviderReturns(ResponsesApp)
  \/ ProviderRaises
  \/ ReadResponse
  \/ ParseLine
  \/ ReturnParsed
  \/ Fallback
  \/ Analyze
  \/ Store
  \/ Except

Spec ==
  Init /\ [][Next]_vars

\* One call of detect_speakers_ai followed by analyze_text_with_speakers, as
\* main makes them, for a transcript t in T.
InitCall(T) ==
  /\ app = "demo"
  /\ uploaded = Some(LimitMB)
  /\ pregenerated = None
  /\ generated = FALSE
  /\ sample_file = "none"
  /\ temp_flag = FALSE
  /\ source = Some([kind |-> "upload", size |-> LimitMB])
  /\ calls = <<"transcribed">>
  /\ reports = <<>>
  /\ pc = "label"
  /\ attempts = 1
  /\ tmp_file = TRUE
  /\ transcript \in {Some(t) : t \in T}
  /\ text = <<>>
  /\ response = None
  /\ formatted_conversation = None
  /\ lines = <<>>
  /\ idx = 0
  /\ speaker = None
  /\ speakers = <<>>
  /\ speaker_data = None
  /\ analysis = None
  /\ session = None
  /\ outcome = "none"

\* The parser over the provider answers ResponsesP.
InitParse ==
  InitCall({HelloTeam})

NextParse ==
  \/ ProviderReturns(ResponsesP)
  \/ ProviderRaises
  \/ ReadResponse
  \/ ParseLine
  \/ ReturnParsed
  \/ Fallback
  \/ Analyze

SpecParse ==
  InitParse /\ [][NextParse]_vars

\* The analyzer over the transcripts TranscriptsA.
InitAnalyze ==
  InitCall(TranscriptsA)

NextAnalyze ==
  \/ ProviderReturns(ResponsesA)
  \/ ProviderRaises
  \/ ReadResponse
  \/ ParseLine
  \/ ReturnParsed
  \/ Fallback
  \/ Analyze

SpecAnalyze ==
  InitAnalyze /\ [][NextAnalyze]_vars

\* The analyzer over the transcripts TranscriptsS, with the speaker table of
\* either return path of detect_speakers_ai.
InitSentences ==
  InitCall(TranscriptsS)

NextSentences ==
  \/ ProviderReturns(ResponsesA)
  \/ ProviderRaises
  \/ ReadResponse
  \/ ParseLine
  \/ ReturnParsed
  \/ Fallback
  \/ Analyze

SpecSentences ==
  InitSentences /\ [][NextSentences]_vars

\* The analyzer over the speaker tables parsed from the answers ResponsesS.
InitSpeakers ==
  InitCall({HelloTeam})

NextSpeakers ==
  \/ ProviderReturns(ResponsesS)
  \/ ProviderRaises
  \/ ReadResponse
  \/ ParseLine
  \/ ReturnParsed
  \/ Fallback
  \/ Analyze

SpecSpeakers ==
  InitSpeakers /\ [][NextSpeakers]_vars

\* The analyzer over the transcripts TranscriptsW, with the fallback table.
InitDuration ==
  InitCall(TranscriptsW)

NextDuration ==
  \/ ProviderRaises
  \/ Fallback
  \/ Analyze

SpecDuration ==
  InitDuration /\ [][NextDuration]_vars

\* Both functions over the provider answers ResponsesP and two transcripts.
InitCopies ==
  InitCall({SafetyFirst, ProductionTalk})

NextCopies ==
  \/ ProviderReturns(ResponsesP)
  \/ ProviderRaises
  \/ ReadResponse
  \/ ParseLine
  \/ ReturnParsed
  \/ Fallback
  \/ Analyze

SpecCopies ==
  InitCopies /\ [][NextCopies]_vars

(***************************************************************************)
(* Properties.  The definitions below describe results independently of    *)
(* the operators above: by positions in the strings, not by the scans.     *)
(***************************************************************************)

Range(f) ==
  {f[i] : i \in DOMAIN f}

\* c and d are the same character up to the case of an ASCII letter, d lowercase.
SameLetter(c, d) ==
  c = d \/ (c \in DOMAIN LowerMap /\ LowerMap[c] = d)

\* Keyword k occurs somewhere in t, case-insensitively.
OccursIn(k, t) ==
  \E i \in 1..(Len(t) - Len(k) + 1) :
    \A j \in 1..Len(k) : SameLetter(t[i + j - 1], k[j])

\* Number of distinct keywords of a list that occur in t.
PresentKeywords(keywords, t) ==
  Cardinality({k \in Range(keywords) : OccursIn(k, t)})

\* C1: the main topic of every report follows the precedence of the source:
\* Safety Discussion iff safety > quality and safety > production; otherwise
\* Quality Control iff quality > production; otherwise Production Planning iff
\* production > 0; otherwise General Discussion.
C1_TopicPrecedence ==
  analysis # None =>
    LET a == analysis[1]
        s == a.safety_mentions
        q == a.quality_mentions
        p == a.production_mentions
        safetyWins == s > q /\ s > p
    IN  /\ a.main_topic = "Safety Discussion" <=> safetyWins
        /\ a.main_topic = "Quality Control" <=> (~safetyWins /\ q > p)
        /\ a.main_topic = "Production Planning" <=> (~safetyWins /\ q <= p /\ p > 0)
        /\ a.main_topic = "General Discussion" <=> (~safetyWins /\ q <= p /\ p <= 0)

\* C1 witness: a report where safety ties with quality above production, the
\* case the strict comparison and the order of the rules decide.
C1_Witness ==
  /\ analysis # None
  /\ analysis[1].safety_mentions = analysis[1].quality_mentions
  /\ analysis[1].quality_mentions > analysis[1].production_mentions
  /\ analysis[1].main_topic = "Quality Control"

\* C2 as stated: when quality = production > safety the main topic is
\* Quality Control.
C2_Original ==
  (/\ analysis # None
   /\ analysis[1].quality_mentions = analysis[1].production_mentions
   /\ analysis[1].production_mentions > analysis[1].safety_mentions)
  => analysis[1].main_topic = "Quality Control"

\* C2 amended: when quality = production > safety the main topic is
\* Production Planning (quality > production fails on the tie, production > 0
\* holds).
C2_TieIsProduction ==
  (/\ analysis # None
   /\ analysis[1].quality_mentions = analysis[1].production_mentions
   /\ analysis[1].production_mentions > analysis[1].safety_mentions)
  => analysis[1].main_topic = "Production Planning"

\* C2 witness: a report with quality = production > safety.
C2_Witness ==
  /\ analysis # None
  /\ analysis[1].quality_mentions = analysis[1].production_mentions
  /\ analysis[1].production_mentions > analysis[1].safety_mentions

\* C3: each reported count is the number of distinct keywords of its list that
\* occur, case-insensitively and anywhere (also inside a longer word), in the
\* transcript; so the counts lie in 0..10, 0..9 and 0..8.
C3_PresenceCounts ==
  analysis # None =>
    LET a == analysis[1]
        t == transcript[1]
    IN  /\ a.safety_mentions = PresentKeywords(safety_keywords, t)
        /\ a.quality_mentions = PresentKeywords(quality_keywords, t)
        /\ a.production_mentions = PresentKeywords(production_keywords, t)
        /\ a.safety_mentions \in 0..10
        /\ a.quality_mentions \in 0..9
        /\ a.production_mentions \in 0..8

\* C3 witness: the transcript "Safety Safety brisk": a keyword in another case,
\* repeated, and a keyword inside a longer word give the count 2.
C3_Witness ==
  /\ analysis # None
  /\ transcript[1] = <<"S", "a", "f", "e", "t", "y", " ", "S", "a", "f", "e", "t", "y", " ", "b", "r",
                     "i", "s", "k">>
  /\ analysis[1].safety_mentions = 2

Min(S) ==
  CHOOSE x \in S : \A y \in S : x <= y

Max(S) ==
  CHOOSE x \in S : \A y \in S : x >= y

ColonPositions(s) ==
  {i \in 1..Len(s) : s[i] = ":"}

LineHasColon(s) ==
  ColonPositions(s) # {}

\* s without its leading and trailing whitespace.
Trimmed(s) ==
  LET ns == {i \in 1..Len(s) : ~IsSpace(s[i])}
  IN  IF ns = {} THEN <<>> ELSE SubSeq(s, Min(ns), Max(ns))

\* The trimmed text before the first colon of a line, and the trimmed text
\* after it.
LabelOf(raw) ==
  Trimmed(SubSeq(raw, 1, Min(ColonPositions(raw)) - 1))

UtteranceOf(raw) ==
  Trimmed(SubSeq(raw, Min(ColonPositions(raw)) + 1, Len(raw)))

\* The lines the loop has processed so far.
Processed ==
  SubSeq(lines, 1, idx - 1)

\* Positions, among the lines ls, of the colon-containing lines with label k.
LinesOf(ls, k) ==
  {i \in 1..Len(ls) : LineHasColon(ls[i]) /\ LabelOf(ls[i]) = k}

\* The m-th smallest element of a set of numbers.
Nth(S, m) ==
  CHOOSE i \in S : Cardinality({j \in S : j <= i}) = m

\* C4: after the loop processed a colon-containing line, the locals speaker and
\* text are the trimmed text before its first colon and the trimmed text after
\* it, later colons kept in the utterance, and that utterance is the last one of
\* that speaker's list.
C4_SplitAtFirstColon ==
  (idx > 1 /\ LineHasColon(lines[idx - 1])) =>
    LET raw == lines[idx - 1]
    IN  /\ speaker = Some(LabelOf(raw))
        /\ text = UtteranceOf(raw)
        /\ ColonPositions(speaker[1]) = {}
        /\ Cardinality(ColonPositions(text)) = Cardinality(ColonPositions(raw)) - 1
        /\ DictHas(speakers, speaker[1])
        /\ LET v == DictGet(speakers, speaker[1]) IN v[Len(v)] = text

\* C4 witness: the loop processed a line with whitespace around its label and a
\* second colon inside its utterance.
C4_Witness ==
  /\ idx > 1
  /\ Cardinality(ColonPositions(lines[idx - 1])) = 2
  /\ IsSpace(lines[idx - 1][1])
  /\ Len(text) > Len(speaker[1])

\* C5: at every point of the loop the table has no duplicate keys, its keys are
\* the labels of the processed lines in order of first appearance, and each
\* speaker's list is the utterances of that speaker's lines in line order.
C5_OrderedTable ==
  idx >= 1 =>
    LET keys   == DictKeys(speakers)
        labels == {LabelOf(Processed[i]) :
                     i \in {j \in 1..Len(Processed) : LineHasColon(Processed[j])}}
    IN  /\ \A i, j \in 1..Len(keys) : keys[i] = keys[j] => i = j
        /\ Range(keys) = labels
        /\ \A i, j \in 1..Len(keys) :
             i < j => Min(LinesOf(Processed, keys[i])) < Min(LinesOf(Processed, keys[j]))
        /\ \A i \in 1..Len(speakers) :
             LET own == LinesOf(Processed, speakers[i].k)
                 v   == speakers[i].v
             IN  /\ Len(v) = Cardinality(own)
                 /\ \A m \in 1..Len(v) : v[m] = UtteranceOf(Processed[Nth(own, m)])

\* C5 witness: the loop is over, two speakers are registered and the first one
\* spoke again after the second.
C5_Witness ==
  /\ pc = "parse"
  /\ idx > Len(lines)
  /\ Len(speakers) = 2
  /\ Len(speakers[1].v) = 2
  /\ LineHasColon(lines[2])
  /\ LabelOf(lines[2]) = speakers[2].k

\* C6: an iteration of the loop on a line without a colon leaves the table as
\* it is and moves to the next line.
C6_NoColonLineIgnored ==
  [][(pc = "parse" /\ idx <= Len(lines) /\ ~LineHasColon(lines[idx]))
       => (speakers' = speakers /\ idx' = idx + 1)]_vars

\* C6 witness: a non-empty line without a colon was processed after a speaker
\* had been registered, and the table still holds that speaker's one utterance.
C6_Witness ==
  /\ pc = "parse"
  /\ idx = 3
  /\ LineHasColon(lines[1])
  /\ ~LineHasColon(lines[2])
  /\ lines[2] # <<>>
  /\ Len(speakers) = 1
  /\ speakers[1].v = <<UtteranceOf(lines[1])>>

\* The lines of a text: the stretches between its newline characters.
LinesOfText(c) ==
  LET cuts == {0, Len(c) + 1} \cup {i \in 1..Len(c) : c[i] = "\n"}
  IN  {SubSeq(c, a + 1, b - 1) :
         <<a, b>> \in {ab \in cuts \X cuts :
                         /\ ab[1] < ab[2]
                         /\ \A x \in cuts : ~(ab[1] < x /\ x < ab[2])}}

\* The distinct trimmed labels of the colon-containing lines of a text.
LabelsOfText(c) ==
  {LabelOf(l) : l \in {x \in LinesOfText(c) : LineHasColon(x)}}

\* The provider answered with a text (the parsed path).
Answered ==
  response # None /\ response[1].readable

\* C7: the speaker_count returned for a provider answer is the number of
\* distinct trimmed labels of its colon-containing lines, and the number of keys
\* of the returned table.
C7_SpeakerCount ==
  (Answered /\ speaker_data # None) =>
    /\ speaker_data[1].speaker_count = Cardinality(LabelsOfText(response[1].content))
    /\ speaker_data[1].speaker_count = Len(speaker_data[1].speakers)

\* C7 witness: an answer of three colon-containing lines, two of them with the
\* same label up to whitespace, gives speaker_count 2.
C7_Witness ==
  /\ Answered
  /\ speaker_data # None
  /\ Len(lines) = 3
  /\ \A i \in 1..3 : LineHasColon(lines[i])
  /\ \E i, j \in 1..3 : i # j /\ lines[i] # lines[j]
                        /\ SubSeq(lines[i], 1, 2) # SubSeq(lines[j], 1, 2)
                        /\ LabelOf(lines[i]) = LabelOf(lines[j])
  /\ speaker_data[1].speaker_count = 2

\* C10: for a provider answer without any colon the parser does not take the
\* exception path and returns an empty table with speaker_count 0, and the
\* report made from it has no per-speaker entry and total_speakers 0.
C10_NoColonText ==
  (Answered /\ ColonPositions(response[1].content) = {}) =>
    /\ pc # "fallback"
    /\ pc \in {"analyze", "store", "done"} => speaker_data # None
    /\ speaker_data # None =>
         /\ speaker_data[1].speakers = <<>>
         /\ speaker_data[1].speaker_count = 0
    /\ analysis # None =>
         /\ analysis[1].speaker_analysis = <<>>
         /\ analysis[1].total_speakers = 0

\* C10 witness: the report for the empty answer.
C10_Witness ==
  /\ Answered
  /\ response[1].content = <<>>
  /\ analysis # None
  /\ analysis[1].total_speakers = 0

\* The labeling call of the current attempt failed: it raised, or its response
\* could not be read.
LabelingFailed ==
  /\ transcript # None
  /\ \/ pc = "fallback"
     \/ pc \in {"analyze", "store", "except", "done"} /\ ~Answered

\* The single-speaker table for a transcript t.
SingleSpeaker(t) ==
  <<[k |-> <<"S", "p", "e", "a", "k", "e", "r", " ", "A">>, v |-> <<t>>]>>

\* C8: when the labeling call failed, detect_speakers_ai returns the table with
\* the one key "Speaker A" whose list is the whole, unmodified transcript, and
\* speaker_count 1.
C8_FallbackTable ==
  (LabelingFailed /\ pc \in {"analyze", "store", "done"}) =>
    /\ speaker_data # None
    /\ speaker_data[1].speakers = SingleSpeaker(transcript[1])
    /\ speaker_data[1].speaker_count = 1

\* C8 witness: the fallback was returned for a transcript with whitespace
\* around it, after a response that could not be read.
C8_Witness ==
  /\ LabelingFailed
  /\ response # None
  /\ IsSpace(transcript[1][1])
  /\ speaker_data # None
  /\ speaker_data[1].speaker_count = 1

\* C9: an attempt whose transcription succeeded and whose labeling failed never
\* reaches the error handler: the analyzer runs on the transcript with the
\* single-speaker table, and the attempt ends with these results stored in the
\* session and the success outcome.
C9_LabelFailureNotPropagated ==
  LabelingFailed =>
    /\ pc # "except"
    /\ pc \in {"store", "done"} =>
         /\ analysis # None
         /\ analysis[1].speaker_analysis # <<>>
         /\ DictKeys(analysis[1].speaker_analysis) = DictKeys(SingleSpeaker(transcript[1]))
         /\ analysis[1].total_speakers = 1
    /\ pc = "done" =>
         /\ outcome = "success"
         /\ session # None
         /\ session[1].transcript = transcript[1]
         /\ session[1].speaker_data.speakers = SingleSpeaker(transcript[1])
         /\ session[1].analysis = analysis[1]

\* C9 witness: a second attempt, whose labeling call raised, ended with success.
C9_Witness ==
  /\ LabelingFailed
  /\ response = None
  /\ pc = "done"
  /\ attempts = 2
  /\ outcome = "success"

\* The fragments of t between periods, by position: fragment k lies between
\* the k-th and the (k+1)-th of the cuts (the periods and the two ends).
PeriodCuts(t) ==
  {0, Len(t) + 1} \cup {i \in 1..Len(t) : t[i] = "."}

Fragment(t, k) ==
  SubSeq(t, Nth(PeriodCuts(t), k) + 1, Nth(PeriodCuts(t), k + 1) - 1)

\* The fragments that are longer than 10 characters once trimmed.
QualifyingFragments(t) ==
  {k \in 1..(Cardinality(PeriodCuts(t)) - 1) : Len(Trimmed(Fragment(t, k))) > 10}

\* C11: the report's key_points are the first 5 (or all, when fewer) of the
\* fragments obtained by splitting the transcript on ".", each trimmed, kept
\* only when its trimmed length exceeds 10, in their order in the transcript.
C11_KeyPointsAreFirstFive ==
  analysis # None =>
    LET t  == transcript[1]
        kp == analysis[1].key_points
        q  == QualifyingFragments(t)
    IN  /\ Len(kp) = Min({5, Cardinality(q)})
        /\ \A m \in 1..Len(kp) : kp[m] = Trimmed(Fragment(t, Nth(q, m)))

\* A report over a transcript with more than 5 qualifying fragments and a
\* fragment of trimmed length exactly 10 ahead of the fifth key point.
C11_Witness ==
  /\ analysis # None
  /\ LET t == transcript[1]
         q == QualifyingFragments(t)
     IN  /\ Cardinality(q) > 5
         /\ \E k \in 1..Nth(q, 5) : Len(Trimmed(Fragment(t, k))) = 10
  /\ Len(analysis[1].key_points) = 5

\* C12: key_points never has more than 5 entries; it has exactly 5 when the
\* transcript has 5 or more period-delimited sentences longer than 10
\* characters (their length taken without the surrounding whitespace); and
\* every entry is longer than 10 characters, contains no period and neither
\* starts nor ends with whitespace.
C12_KeyPointsShape ==
  analysis # None =>
    LET kp == analysis[1].key_points
    IN  /\ Len(kp) <= 5
        /\ Cardinality(QualifyingFragments(transcript[1])) >= 5 => Len(kp) = 5
        /\ \A m \in 1..Len(kp) :
             /\ Len(kp[m]) > 10
             /\ "." \notin Range(kp[m])
             /\ ~IsSpace(kp[m][1])
             /\ ~IsSpace(kp[m][Len(kp[m])])

\* A report over a transcript of 7 qualifying sentences: 5 key points.
C12_Witness ==
  /\ analysis # None
  /\ Cardinality(QualifyingFragments(transcript[1])) = 7
  /\ Len(analysis[1].key_points) = 5

\* The positions of t where a whitespace-separated token starts.
TokenStarts(t) ==
  {i \in 1..Len(t) : ~IsSpace(t[i]) /\ (i = 1 \/ IsSpace(t[i - 1]))}

\* C13: the report's speaker_analysis has exactly the keys of the speaker table
\* it was given, in the table's order, and for every speaker: utterances is the
\* length of the speaker's list, words is the number of whitespace-separated
\* tokens of the utterances joined by single blanks, and the three mention
\* counts are the numbers of distinct keywords of each list that occur,
\* case-insensitively, in that joined text.
C13_PerSpeakerStats ==
  analysis # None =>
    LET table == speaker_data[1].speakers
        sa    == analysis[1].speaker_analysis
    IN  /\ Len(sa) = Len(table)
        /\ \A i \in 1..Len(table) :
             LET joined == Join(table[i].v, <<" ">>)
             IN  /\ sa[i].k = table[i].k
                 /\ sa[i].v.utterances = Len(table[i].v)
                 /\ sa[i].v.words = Cardinality(TokenStarts(joined))
                 /\ sa[i].v.safety_mentions = PresentKeywords(safety_keywords, joined)
                 /\ sa[i].v.quality_mentions = PresentKeywords(quality_keywords, joined)
                 /\ sa[i].v.production_mentions = PresentKeywords(production_keywords, joined)

\* A report over a table of two speakers, the first with two utterances and
\* two distinct safety keywords, the second with a quality keyword, while the
\* transcript itself mentions none.
C13_Witness ==
  /\ analysis # None
  /\ Len(analysis[1].speaker_analysis) = 2
  /\ analysis[1].speaker_analysis[1].v.utterances = 2
  /\ analysis[1].speaker_analysis[1].v.safety_mentions = 2
  /\ analysis[1].speaker_analysis[1].v.words = 4
  /\ analysis[1].speaker_analysis[2].v.quality_mentions > 0
  /\ analysis[1].safety_mentions = 0

\* C14: the report's word_count is the number of whitespace-separated tokens
\* of the transcript, whatever speaker table the report was computed with.
C14_WordCount ==
  analysis # None =>
    analysis[1].word_count = Cardinality(TokenStarts(transcript[1]))

\* A report computed with the two-speaker table parsed from the provider's
\* answer, over a transcript with tabs and adjacent blanks between its words;
\* the words of the table's utterances are fewer than the transcript's.
C14_Witness ==
  /\ analysis # None
  /\ Answered
  /\ speaker_data[1].speaker_count = 2
  /\ \E i \in 2..Len(transcript[1]) : IsSpace(transcript[1][i]) /\ IsSpace(transcript[1][i - 1])
  /\ analysis[1].word_count > 4

\* C16: a transcript in which exactly 2 distinct safety keywords, exactly 2
\* distinct quality keywords and no production keyword occur is reported with
\* main topic "Quality Control".
C16_SafetyQualityTie ==
  (/\ analysis # None
   /\ PresentKeywords(safety_keywords, transcript[1]) = 2
   /\ PresentKeywords(quality_keywords, transcript[1]) = 2
   /\ PresentKeywords(production_keywords, transcript[1]) = 0)
  => analysis[1].main_topic = "Quality Control"

\* A report over such a transcript, with the counts 2, 2 and 0.
C16_Witness ==
  /\ analysis # None
  /\ PresentKeywords(safety_keywords, transcript[1]) = 2
  /\ PresentKeywords(quality_keywords, transcript[1]) = 2
  /\ PresentKeywords(production_keywords, transcript[1]) = 0
  /\ analysis[1].safety_mentions = 2
  /\ analysis[1].quality_mentions = 2
  /\ analysis[1].production_mentions = 0
  /\ analysis[1].main_topic = "Quality Control"

NeedTraining ==
  <<"W", "e", " ", "n", "e", "e", "d", " ", "P", "P", "E", " ", "a", "n", "d", " ", "s", "a", "f", "e", "t", "y", " ", "t", "r", "a", "i", "n", "i", "n", "g", ".">>

AgreedSchedule ==
  <<"A", "g", "r", "e", "e", "d", ",", " ", "s", "c", "h", "e", "d", "u", "l", "e", " ", "i", "t", ".">>

SpeakerB ==
  <<"S", "p", "e", "a", "k", "e", "r", " ", "B">>

\* The parser has returned the table of the one-line dialogue.
ParsedOneLine ==
  /\ pc \in {"analyze", "store", "done"}
  /\ response = Some(Readable(OneLineDialogue))

\* C17 as stated: the one-line dialogue is parsed into two speakers with one
\* utterance each.
C17_Original ==
  ParsedOneLine =>
    /\ speaker_data[1].speakers =
         << [k |-> SpeakerA, v |-> <<NeedTraining>>],
            [k |-> SpeakerB, v |-> <<AgreedSchedule>>] >>
    /\ speaker_data[1].speaker_count = 2

\* C17: the one-line dialogue has one line, so the parser records one speaker,
\* "Speaker A", whose single utterance is everything after the first colon,
\* "Speaker B:" included; speaker_count is 1.
C17_OneLineOneSpeaker ==
  ParsedOneLine =>
    /\ speaker_data[1].speakers =
         << [k |-> SpeakerA,
             v |-> <<NeedTraining \o <<" ">> \o SpeakerB \o <<":", " ">> \o AgreedSchedule>>] >>
    /\ speaker_data[1].speaker_count = 1

C17_Witness ==
  /\ ParsedOneLine
  /\ speaker_data # None
  /\ speaker_data[1].formatted_conversation = OneLineDialogue
  /\ analysis # None
  /\ analysis[1].total_speakers = 1

\* C18: for the transcript "Safety first. Quality matters too. We also discuss
\* production schedules and capacity." the report has safety_mentions 1,
\* quality_mentions 1 and production_mentions of at least 2, more than
\* quality_mentions, and its main topic is "Production Planning".
C18_ProductionTalk ==
  (analysis # None /\ transcript[1] = ProductionTalk) =>
    /\ analysis[1].safety_mentions = 1
    /\ analysis[1].quality_mentions = 1
    /\ analysis[1].production_mentions >= 2
    /\ analysis[1].production_mentions > analysis[1].quality_mentions
    /\ analysis[1].main_topic = "Production Planning"

\* The report over that transcript: production, schedule and capacity occur.
C18_Witness ==
  /\ analysis # None
  /\ transcript[1] = ProductionTalk
  /\ analysis[1].production_mentions = 3
  /\ analysis[1].main_topic = "Production Planning"

C20_FailedTranscriptionStops ==
  /\ (\E n \in 1..Len(calls) : calls[n] = "transcription failed") =>
       /\ calls = <<"transcription failed">>
       /\ speaker_data = None /\ analysis = None
       /\ pc \in {"except", "done"}
       /\ pc = "done" => outcome = "error"
  /\ (\E n \in 1..Len(calls) : calls[n] = "analyzed") =>
       /\ calls[1] = "transcribed"
       /\ transcript # None
  /\ analysis # None => (\E n \in 1..Len(calls) : calls[n] = "analyzed")

\* A failed transcription after a successful attempt: the error is shown and
\* the call log of the attempt has the failed call only.
C20_Witness ==
  /\ attempts = 2
  /\ session # None
  /\ calls = <<"transcription failed">>
  /\ pc = "done"
  /\ outcome = "error"

\* The attempt in progress has failed: its transcription call raised.
AttemptFailed ==
  \E n \in 1..Len(calls) : calls[n] = "transcription failed"

\* C21: no step of a failed attempt, from the click to the end of the except
\* block, changes the stored session results; the except block ends with the
\* page back at rest and the chosen files as they were, so that the button can
\* be clicked again; and the session changes only when an attempt stores its
\* own results.
C21_FailureLeavesSession ==
  /\ [][(pc' = "transcribe" \/ AttemptFailed') => session' = session]_vars
  /\ [][pc = "except" => (pc' = "done" /\ files' = files)]_vars
  /\ [][session' # session =>
          (pc = "store" /\ session' # None
             /\ session'[1].transcript = transcript[1]
             /\ session'[1].timestamp = attempts)]_vars

\* A first attempt that failed, then a second attempt that succeeded and stored
\* its own results.
C21_Witness ==
  /\ attempts = 2
  /\ Len(reports) = 1
  /\ pc = "done"
  /\ outcome = "success"
  /\ session # None
  /\ session[1].timestamp = 2

\* C22: with the page at rest, the export is offered only when results are
\* stored, and its four fields are those of the most recent attempt that
\* reached the analyzer: original_transcript and conversation_with_speakers are
\* that attempt's transcript and the formatted conversation of its speaker
\* data, analysis is the report the analyzer returned for the two, and
\* timestamp is the time of that attempt.
C22_ExportFromOneAttempt ==
  (pc \in {"idle", "done"} /\ ExportOffered) =>
    /\ session # None
    /\ reports # <<>>
    /\ LET last == reports[Len(reports)]
       IN  /\ results.original_transcript = last.transcript
           /\ results.conversation_with_speakers = last.speaker_data.formatted_conversation
           /\ results.analysis = last.analysis
           /\ results.timestamp = last.attempt

\* The export after two successful attempts with different transcripts and
\* different speaker data.
C22_Witness ==
  /\ pc = "done"
  /\ ExportOffered
  /\ Len(reports) = 2
  /\ reports[1].transcript # reports[2].transcript
  /\ reports[1].speaker_data.speaker_count # reports[2].speaker_data.speaker_count
  /\ results.timestamp = 2

\* The number written by a sequence of decimal digits; -1 for anything else.
DigitValue(c) ==
  IF c \in {"0", "1", "2", "3", "4", "5", "6", "7", "8", "9"}
    THEN CHOOSE v \in 0..9 : <<"0", "1", "2", "3", "4", "5", "6", "7", "8", "9">>[v + 1] = c
  ELSE -1

RECURSIVE NumberOf(_)
NumberOf(ds) ==
  IF ds = <<>> THEN -1
  ELSE IF DigitValue(ds[Len(ds)]) < 0 THEN -1
  ELSE IF Len(ds) = 1 THEN DigitValue(ds[1])
  ELSE LET front == NumberOf(SubSeq(ds, 1, Len(ds) - 1))
       IN  IF front < 0 THEN -1 ELSE 10 * front + DigitValue(ds[Len(ds)])

Minutes ==
  <<" ", "m", "i", "n", "u", "t", "e", "s">>

\* d reads "<digits>.<digit> minutes" and the number shown is n tenths.
ShowsTenths(d, n) ==
  LET dot == Len(d) - Len(Minutes) - 1
  IN  /\ dot >= 2
      /\ d[dot] = "."
      /\ SubSeq(d, dot + 2, Len(d)) = Minutes
      /\ NumberOf(SubSeq(d, 1, dot - 1)) = n \div 10
      /\ DigitValue(d[dot + 1]) = n % 10
      /\ (dot > 2 => d[1] # "0")

\* C23: estimated_duration reads "<digits>.<digit> minutes", one decimal place,
\* and the number it shows, in tenths, is the integer nearest to w / 15 for the
\* report's word count w; 0 words read "0.0 minutes", 8 words "0.1 minutes" and
\* 150 words "1.0 minutes".
C23_DurationRounded ==
  analysis # None =>
    LET w == analysis[1].word_count
        d == analysis[1].estimated_duration
    IN  /\ \E n \in 0..w :
             /\ ShowsTenths(d, n)
             /\ 2 * (15 * n - w) < 15
             /\ 2 * (w - 15 * n) < 15
        /\ w = 0 => d = <<"0", ".", "0">> \o Minutes
        /\ w = 8 => d = <<"0", ".", "1">> \o Minutes
        /\ w = 150 => d = <<"1", ".", "0">> \o Minutes

\* The report over a transcript of 150 words.
C23_Witness ==
  /\ analysis # None
  /\ Len(transcript[1]) = 300
  /\ analysis[1].word_count = 150
  /\ analysis[1].estimated_duration = <<"1", ".", "0">> \o Minutes


\* C24: the copies of detect_speakers_ai and analyze_text_with_speakers in
\* streamlit_app.py return, for the same transcript, provider response and
\* speaker data, what the copies in demo.py return.
C24_CopiesAgree ==
  /\ speaker_data # None =>
       speaker_data[1] = streamlit_detect_speakers_ai(transcript[1], response)
  /\ analysis # None =>
       analysis[1] = streamlit_analyze_text_with_speakers(transcript[1], speaker_data[1])

\* A report over a table parsed from a line with two colons.
C24_Witness ==
  /\ analysis # None
  /\ response # None
  /\ response[1] = Readable(OneLineDialogue)
  /\ speaker_data[1].speaker_count = 1
  /\ analysis[1].main_topic # "General Discussion"


\* C25: the main topic is "General Discussion" exactly when no keyword of the
\* three lists is present in the transcript; otherwise it is one of "Safety
\* Discussion", "Quality Control" and "Production Planning", and it is not
\* "Safety Discussion" when the safety count equals the larger of the other two.
C25_TopicTotal ==
  analysis # None =>
    LET s     == PresentKeywords(safety_keywords, transcript[1])
        q     == PresentKeywords(quality_keywords, transcript[1])
        p     == PresentKeywords(production_keywords, transcript[1])
        topic == analysis[1].main_topic
    IN  /\ (topic = "General Discussion") <=> (s = 0 /\ q = 0 /\ p = 0)
        /\ topic \in {"General Discussion", "Safety Discussion",
                      "Quality Control", "Production Planning"}
        /\ s = Max({q, p}) => topic # "Safety Discussion"

\* One quality and one production keyword, no safety keyword: the tie of the
\* other two goes to production.
C25_Witness ==
  /\ analysis # None
  /\ PresentKeywords(safety_keywords, transcript[1]) = 0
  /\ PresentKeywords(quality_keywords, transcript[1]) = 1
  /\ PresentKeywords(production_keywords, transcript[1]) = 1
  /\ analysis[1].main_topic = "Production Planning"


\* C26: no step of streamlit_app.py removes the pre-generated sample file of
\* sample_audio/, whatever was generated, loaded, uploaded or processed before.
C26_SamplesKept ==
  [][pregenerated # None => pregenerated' # None]_vars


\* C27: while an attempt on an uploaded file runs, its temp copy is on disk;
\* when the attempt has ended, with success or with an error, the temp copy is
\* gone, and it is gone whenever the page is at rest.
C27_TempCopyRemoved ==
  /\ (pc \in {"idle", "done"}) => ~tmp_file
  /\ (pc \notin {"idle", "done"} /\ source[1].kind = "upload") => tmp_file
  /\ (pc \notin {"idle", "done"} /\ source[1].kind = "sample") => ~tmp_file

\* A second attempt on an upload has failed after a first one succeeded.
C27_Witness ==
  /\ pc = "done"
  /\ attempts = 2
  /\ source[1].kind = "upload"
  /\ outcome = "error"
  /\ session # None
  /\ ~tmp_file


\* The number of utterances of all the lists of a table.
RECURSIVE TotalUtterances(_)
TotalUtterances(d) ==
  IF d = <<>> THEN 0 ELSE Len(d[1].v) + TotalUtterances(Tail(d))

\* The number of lines of a text that contain a colon: the line starts (the
\* start of the text and the position of each newline) followed by a colon
\* with no newline in between.
ColonLineCount(c) ==
  LET starts == {0} \cup {i \in 1..Len(c) : c[i] = "\n"}
  IN  Cardinality({a \in starts :
                     \E i \in ColonPositions(c) :
                       a < i /\ \A j \in (a + 1)..(i - 1) : c[j] # "\n"})

\* C28: the lengths of the utterance lists of the returned table add up to the
\* number of colon-containing lines of the provider's answer, and during the
\* loop to the number of colon-containing lines processed so far.
C28_UtterancesAddUp ==
  /\ pc = "parse" =>
       TotalUtterances(speakers)
         = Cardinality({i \in 1..(idx - 1) : LineHasColon(lines[i])})
  /\ (Answered /\ speaker_data # None) =>
       TotalUtterances(speaker_data[1].speakers) = ColonLineCount(response[1].content)

\* Three lines, two of them the same labeled line: one speaker, two equal
\* utterances.
C28_Witness ==
  /\ Answered
  /\ speaker_data # None
  /\ Len(lines) = 3
  /\ ColonLineCount(response[1].content) = 2
  /\ Len(speaker_data[1].speakers) = 1
  /\ Len(speaker_data[1].speakers[1].v) = 2
  /\ speaker_data[1].speakers[1].v[1] = speaker_data[1].speakers[1].v[2]


\* The keys of a table, as a set.
KeySet(d) ==
  {d[i].k : i \in 1..Len(d)}

\* C29: the report's total_speakers is the number of entries of its
\* speaker_analysis and the number of keys of the table of the speaker data it
\* was made from, both tables having the same distinct keys: the number of
\* distinct labels of the answer on the parsed path, 1 on the fallback path.
C29_TotalSpeakers ==
  analysis # None =>
    LET table   == speaker_data[1].speakers
        entries == analysis[1].speaker_analysis
        n       == analysis[1].total_speakers
    IN  /\ n = Len(entries)
        /\ n = Len(table)
        /\ n = Cardinality(KeySet(table))
        /\ KeySet(entries) = KeySet(table)
        /\ Answered => n = Cardinality(LabelsOfText(response[1].content))
        /\ ~Answered => n = 1

\* A report over an answer of three labeled lines by two speakers.
C29_Witness ==
  /\ analysis # None
  /\ Answered
  /\ ColonLineCount(response[1].content) = 3
  /\ analysis[1].total_speakers = 2
  /\ Len(analysis[1].speaker_analysis) = 2


\* C30: when the labeling call failed, the report has exactly one per-speaker
\* entry, for "Speaker A", with 1 utterance, as many words as the report's
\* word_count and the report's three keyword counts as its mentions.
C30_DegradedEntry ==
  (LabelingFailed /\ analysis # None) =>
    LET report  == analysis[1]
        entries == report.speaker_analysis
    IN  /\ Len(entries) = 1
        /\ entries[1].k = <<"S", "p", "e", "a", "k", "e", "r", " ", "A">>
        /\ entries[1].v.utterances = 1
        /\ entries[1].v.words = report.word_count
        /\ entries[1].v.safety_mentions = report.safety_mentions
        /\ entries[1].v.quality_mentions = report.quality_mentions
        /\ entries[1].v.production_mentions = report.production_mentions

\* The degraded report of a transcript with a capitalised safety keyword, an
\* upper-case quality keyword and a production keyword.
C30_Witness ==
  /\ LabelingFailed
  /\ analysis # None
  /\ analysis[1].word_count = 3
  /\ transcript[1][1] = "S"
  /\ analysis[1].safety_mentions = 1
  /\ analysis[1].quality_mentions = 1
  /\ analysis[1].production_mentions = 1
  /\ analysis[1].speaker_analysis[1].v.quality_mentions = 1

====
